---- MODULE Spec2Model ----
(***************************************************************************)
(* Model of src/variableResolver.ts: VariableResolver.resolveString with   *)
(* its helpers evaluateSingleVariable and getVersionNumber, over a small   *)
(* POSIX filesystem. The field isWindows is set and never read; the path   *)
(* functions are those of a POSIX host. testVars only logs.                *)
(*                                                                         *)
(* A JavaScript string is a sequence of one-character strings, so that     *)
(* the regular expressions, the path functions and the number <-> string   *)
(* conversions are computed character by character, as the code does.      *)
(* The value `undefined` is the one-element sequence <<"undefined">>,       *)
(* which is no string of characters.                                       *)
(***************************************************************************)
EXTENDS Integers, Sequences, FiniteSets, TLC

(***************************************************************************)
(* Bounds of the model.                                                    *)
(***************************************************************************)
\* Largest number of extra regular files put into every directory.
MaxEntries == 3
\* Largest number of resolveString calls in one behaviour.
MaxCalls == 2

(***************************************************************************)
(* JavaScript values and string primitives.                                *)
(***************************************************************************)
Undefined == <<"undefined">>

\* The exception raised by reading a property of undefined.
TypeError == <<"TypeError">>

\* The JavaScript number NaN, and an integer as a JavaScript number.
NaN == [nan |-> TRUE, val |-> 0]

Num(n) == [nan |-> FALSE, val |-> n]

\* A variable that holds a number, before its assignment.
NoNumber == [undefined |-> TRUE]

Slash == "/"

Digits == <<"0", "1", "2", "3", "4", "5", "6", "7", "8", "9">>

IsDigit(c) == \E d \in 1..10 : Digits[d] = c

DigitValue(c) == (CHOOSE d \in 1..10 : Digits[d] = c) - 1

\* String.prototype.startsWith at a position (1-based).
StartsWithAt(s, sub, i) ==
    /\ i >= 1
    /\ i + Len(sub) - 1 <= Len(s)
    /\ \A k \in 1..Len(sub) : s[i + k - 1] = sub[k]

\* String.prototype.indexOf from a position, 1-based; 0 when absent.
IndexOf(s, sub, from) ==
    LET hits == {i \in from..(Len(s) - Len(sub) + 1) : StartsWithAt(s, sub, i)}
    IN  IF hits = {} THEN 0 ELSE CHOOSE i \in hits : \A j \in hits : i <= j

Contains(s, sub) == IndexOf(s, sub, 1) # 0

\* String.prototype.slice(from) with a 1-based start.
Tail_From(s, i) == SubSeq(s, i, Len(s))

\* String.prototype.replace(string, string): the first occurrence only.
ReplaceFirst(s, sub, rep) ==
    LET i == IndexOf(s, sub, 1)
    IN  IF i = 0 THEN s
        ELSE SubSeq(s, 1, i - 1) \o rep \o Tail_From(s, i + Len(sub))

\* String.prototype.replace(/literal/g, string): every occurrence, left to
\* right, never rescanning the replacement.
RECURSIVE ReplaceAll(_, _, _)
ReplaceAll(s, sub, rep) ==
    LET i == IndexOf(s, sub, 1)
    IN  IF i = 0 THEN s
        ELSE SubSeq(s, 1, i - 1) \o rep
                 \o ReplaceAll(Tail_From(s, i + Len(sub)), sub, rep)

\* Number(digits): the decimal value of a string of digits.
RECURSIVE ParseDecimal(_)
ParseDecimal(s) ==
    IF s = <<>> THEN 0
    ELSE 10 * ParseDecimal(SubSeq(s, 1, Len(s) - 1)) + DigitValue(s[Len(s)])

\* Number(x) for the captured group of a match: undefined gives NaN.
ToNumber(x) == IF x = Undefined THEN NaN ELSE Num(ParseDecimal(x))

\* The decimal digits of a natural number.
RECURSIVE DecimalString(_)
DecimalString(n) ==
    IF n < 10 THEN <<Digits[n + 1]>>
    ELSE DecimalString(n \div 10) \o <<Digits[(n % 10) + 1]>>

\* String(x) for a JavaScript number.
NumberToString(x) ==
    IF x.nan THEN <<"N", "a", "N">>
    ELSE IF x.val < 0 THEN <<"-">> \o DecimalString(0 - x.val)
    ELSE DecimalString(x.val)

\* Math.max of two numbers: NaN is contagious.
MathMax(a, b) ==
    IF a.nan \/ b.nan THEN NaN
    ELSE IF a.val >= b.val THEN a ELSE b

\* x < 0 and x + 1 on JavaScript numbers (any comparison with NaN is false).
LessThanZero(x) == ~x.nan /\ x.val < 0

PlusOne(x) == IF x.nan THEN NaN ELSE Num(x.val + 1)

(***************************************************************************)
(* Node's path module, POSIX flavour.                                      *)
(***************************************************************************)
\* Index of the last character that is no slash; 0 when there is none.
LastNonSlash(p) ==
    LET I == {i \in 1..Len(p) : p[i] # Slash}
    IN  IF I = {} THEN 0 ELSE CHOOSE i \in I : \A j \in I : j <= i

\* path.basename(p): the last component, trailing slashes ignored.
Basename(p) ==
    LET end == LastNonSlash(p)
        S == {i \in 1..end : p[i] = Slash}
        start == IF S = {} THEN 1 ELSE (CHOOSE i \in S : \A j \in S : j <= i) + 1
    IN  IF end = 0 THEN <<>> ELSE SubSeq(p, start, end)

\* path.dirname(p).
Dirname(p) ==
    LET E == {i \in 2..Len(p) :
                 p[i] = Slash /\ \E k \in (i + 1)..Len(p) : p[k] # Slash}
        end == IF E = {} THEN 0 ELSE CHOOSE i \in E : \A j \in E : j <= i
        hasRoot == Len(p) > 0 /\ p[1] = Slash
    IN  IF Len(p) = 0 THEN <<".">>
        ELSE IF end = 0 THEN (IF hasRoot THEN <<Slash>> ELSE <<".">>)
        ELSE IF hasRoot /\ end = 2 THEN <<Slash, Slash>>
        ELSE SubSeq(p, 1, end - 1)

\* path.extname(p): from the last dot of the last component, unless that
\* dot starts the component or the component is "..".
Extname(p) ==
    LET c == Basename(p)
        D == {i \in 1..Len(c) : c[i] = "."}
        d == IF D = {} THEN 0 ELSE CHOOSE i \in D : \A j \in D : j <= i
    IN  IF d = 0 \/ d = 1 THEN <<>>
        ELSE IF c[1] = "." /\ d = 2 /\ d = Len(c) THEN <<>>
        ELSE SubSeq(c, d, Len(c))

\* path.basename(p, ext): the last component without the suffix ext.
BasenameExt(p, ext) ==
    LET b == Basename(p)
    IN  IF Len(ext) = 0 \/ Len(ext) > Len(p) THEN b
        ELSE IF ext = p THEN <<>>
        ELSE IF Len(b) > Len(ext) /\ StartsWithAt(b, ext, Len(b) - Len(ext) + 1)
             THEN SubSeq(b, 1, Len(b) - Len(ext))
        ELSE b

\* path.isAbsolute(p).
IsAbsolute(p) == Len(p) > 0 /\ p[1] = Slash

\* The components of a path between its slashes (empty ones included).
RECURSIVE Split(_)
Split(p) ==
    LET i == IndexOf(p, <<Slash>>, 1)
    IN  IF i = 0 THEN <<p>>
        ELSE <<SubSeq(p, 1, i - 1)>> \o Split(Tail_From(p, i + 1))

\* Array.prototype.join("/").
RECURSIVE JoinSegments(_)
JoinSegments(segs) ==
    IF segs = <<>> THEN <<>>
    ELSE IF Len(segs) = 1 THEN segs[1]
    ELSE segs[1] \o <<Slash>> \o JoinSegments(Tail(segs))

\* normalizeString: drops "" and ".", resolves ".." against the component
\* before it, keeps a leading ".." only when allowed above the root.
RECURSIVE NormalizeSegments(_, _, _)
NormalizeSegments(segs, acc, allowAboveRoot) ==
    IF segs = <<>> THEN acc
    ELSE LET s == Head(segs)
             rest == Tail(segs)
         IN  IF s = <<>> \/ s = <<".">>
                 THEN NormalizeSegments(rest, acc, allowAboveRoot)
             ELSE IF s = <<".", ".">>
                 THEN IF acc # <<>> /\ acc[Len(acc)] # <<".", ".">>
                          THEN NormalizeSegments(rest, SubSeq(acc, 1, Len(acc) - 1),
                                                 allowAboveRoot)
                      ELSE IF allowAboveRoot
                          THEN NormalizeSegments(rest, Append(acc, s), allowAboveRoot)
                      ELSE NormalizeSegments(rest, acc, allowAboveRoot)
             ELSE NormalizeSegments(rest, Append(acc, s), allowAboveRoot)

\* path.normalize(p).
Normalize(p) ==
    LET abs == IsAbsolute(p)
        trailing == Len(p) > 0 /\ p[Len(p)] = Slash
        body == JoinSegments(NormalizeSegments(Split(p), <<>>, ~abs))
    IN  IF Len(p) = 0 THEN <<".">>
        ELSE IF body = <<>>
            THEN (IF abs THEN <<Slash>> ELSE IF trailing THEN <<".", Slash>> ELSE <<".">>)
        ELSE (IF abs THEN <<Slash>> ELSE <<>>) \o body
                 \o (IF trailing THEN <<Slash>> ELSE <<>>)

\* path.join(a, b): the non-empty arguments joined by a slash, normalized.
PathJoin(a, b) ==
    LET joined == IF Len(a) = 0 THEN b
                  ELSE IF Len(b) = 0 THEN a
                  ELSE a \o <<Slash>> \o b
    IN  IF Len(joined) = 0 THEN <<".">> ELSE Normalize(joined)

\* Length of the longest common prefix of two sequences of components.
RECURSIVE CommonPrefix(_, _)
CommonPrefix(a, b) ==
    IF a = <<>> \/ b = <<>> \/ Head(a) # Head(b) THEN 0
    ELSE 1 + CommonPrefix(Tail(a), Tail(b))

\* path.relative(from, to) for absolute paths: one ".." per component of
\* from beyond the common prefix, then what is left of to.
PathRelative(from, to) ==
    LET f == NormalizeSegments(Split(from), <<>>, FALSE)
        t == NormalizeSegments(Split(to), <<>>, FALSE)
        n == CommonPrefix(f, t)
        ups == [i \in 1..(Len(f) - n) |-> <<".", ".">>]
    IN  JoinSegments(ups \o SubSeq(t, n + 1, Len(t)))

(***************************************************************************)
(* Placeholders.                                                           *)
(***************************************************************************)
\* The text ${name} of the placeholder called name.
Placeholder(name) == <<"$", "{">> \o name \o <<"}">>

\* The names the switch of evaluateSingleVariable tells apart.
V_workspaceFolder ==
    <<"w","o","r","k","s","p","a","c","e","F","o","l","d","e","r">>

V_workspaceFolderBasename ==
    <<"w","o","r","k","s","p","a","c","e","F","o","l","d","e","r","B","a","s","e","n","a","m","e">>

V_file ==
    <<"f","i","l","e">>

V_relativeFile ==
    <<"r","e","l","a","t","i","v","e","F","i","l","e">>

V_relativeFileDirname ==
    <<"r","e","l","a","t","i","v","e","F","i","l","e","D","i","r","n","a","m","e">>

V_fileBasename ==
    <<"f","i","l","e","B","a","s","e","n","a","m","e">>

V_fileBasenameNoExtension ==
    <<"f","i","l","e","B","a","s","e","n","a","m","e","N","o","E","x","t","e","n","s","i","o","n">>

V_fileDirname ==
    <<"f","i","l","e","D","i","r","n","a","m","e">>

V_fileExtname ==
    <<"f","i","l","e","E","x","t","n","a","m","e">>

V_exportExtension ==
    <<"e","x","p","o","r","t","E","x","t","e","n","s","i","o","n">>

V_version == <<"#">>

\* VERSION_FORMAT matches exactly the text ${#}.
VERSION_FORMAT == Placeholder(V_version)

\* defaultPattern, and the default of the parameter exportExt.
defaultPattern ==
    Placeholder(V_fileBasenameNoExtension) \o <<".">> \o Placeholder(V_exportExtension)

DefaultExportExt == <<"s","c","a","d">>

\* vscode.workspace.getWorkspaceFolder(resource): the folder that governs
\* the resource, or undefined. A resource is [fsPath, folder].
GetWorkspaceFolder(resource) == resource.folder

\* fileBasenameNoExt(uri).
fileBasenameNoExt(resource) ==
    BasenameExt(resource.fsPath, Extname(resource.fsPath))

\* a || b on strings: the empty string is falsy.
OrElse(a, b) == IF a = <<>> THEN b ELSE a

\* A variant of ExportExtOrDefault without the default of the parameter.
ExportExtOrDefault_NoDefault(exportExtArg) ==
    IF exportExtArg = Undefined THEN <<>> ELSE exportExtArg

\* The default of the parameter exportExt: "scad" for undefined.
ExportExtOrDefault(exportExtArg) ==
    IF exportExtArg = Undefined THEN DefaultExportExt ELSE exportExtArg

\* A variant of ReturnMatch that erases the placeholder.
ReturnMatch_Erased(match) == <<>>

\* The last return of the switch, `return match`: the cases "#" and
\* default, and "exportExtension" falling through when exportExt is empty.
ReturnMatch(match) == match

\* evaluateSingleVariable(match, variable, resource, exportExt = "scad").
\* The first statement reads .uri of the workspace folder, whatever the
\* variable: without a folder it throws, here the value TypeError.
EvaluateSingleVariable(match, variable, resource, exportExtArg) ==
    LET exportExt == ExportExtOrDefault(exportExtArg)
        folder == GetWorkspaceFolder(resource)
    IN  IF folder = Undefined THEN TypeError
        ELSE CASE variable = V_workspaceFolder -> OrElse(folder, match)
               [] variable = V_workspaceFolderBasename ->
                      OrElse(Basename(folder), match)
               [] variable = V_file -> resource.fsPath
               [] variable = V_relativeFile ->
                      PathRelative(folder, resource.fsPath)
               [] variable = V_relativeFileDirname ->
                      Basename(Dirname(resource.fsPath))
               [] variable = V_fileBasename -> Basename(resource.fsPath)
               [] variable = V_fileBasenameNoExtension ->
                      fileBasenameNoExt(resource)
               [] variable = V_fileDirname -> Dirname(resource.fsPath)
               [] variable = V_fileExtname -> Extname(resource.fsPath)
               [] variable = V_exportExtension ->
                      IF exportExt # <<>> THEN exportExt ELSE ReturnMatch(match)
               [] OTHER -> ReturnMatch(match)

\* pattern.replace(VARIABLE_REGEXP, callback) with VARIABLE_REGEXP =
\* /\$\{(.*?)\}/g: the leftmost "${", the shortest text up to the next "}",
\* the callback's value in its place, then on from behind the match (the
\* strings here hold no line terminator, which "." would not match). The
\* value is TypeError when a callback threw.
RECURSIVE ReplaceVariables(_, _, _)
ReplaceVariables(s, resource, exportExt) ==
    LET i == IndexOf(s, <<"$", "{">>, 1)
        j == IF i = 0 THEN 0 ELSE IndexOf(s, <<"}">>, i + 2)
    IN  IF j = 0 THEN s
        ELSE LET match == SubSeq(s, i, j)
                 variable == SubSeq(s, i + 2, j - 1)
                 value == EvaluateSingleVariable(match, variable, resource,
                                                 exportExt)
                 rest == ReplaceVariables(Tail_From(s, j + 1), resource,
                                          exportExt)
             IN  IF value = TypeError \/ rest = TypeError THEN TypeError
                 ELSE SubSeq(s, 1, i - 1) \o value \o rest

\* The matches of VARIABLE_REGEXP in s, left to right: [match, variable].
RECURSIVE VariableMatches(_)
VariableMatches(s) ==
    LET i == IndexOf(s, <<"$", "{">>, 1)
        j == IF i = 0 THEN 0 ELSE IndexOf(s, <<"}">>, i + 2)
    IN  IF j = 0 THEN <<>>
        ELSE <<[match |-> SubSeq(s, i, j), variable |-> SubSeq(s, i + 2, j - 1)]>>
                 \o VariableMatches(Tail_From(s, j + 1))

(***************************************************************************)
(* The regular expression of getVersionNumber.                             *)
(***************************************************************************)
Backslash == "\\"

\* The characters escape-string-regexp puts a backslash before.
RegexSpecial ==
    {"|", Backslash, "{", "}", "(", ")", "[", "]", "^", "$", "+", "*", "?", "."}

\* escapeStringRegexp(s): a backslash before each special character, and
\* \x2d for a hyphen.
RECURSIVE escapeStringRegexp(_)
escapeStringRegexp(s) ==
    IF s = <<>> THEN <<>>
    ELSE LET c == Head(s)
             e == IF c \in RegexSpecial THEN <<Backslash, c>>
                  ELSE IF c = "-" THEN <<Backslash, "x", "2", "d">>
                  ELSE <<c>>
         IN  e \o escapeStringRegexp(Tail(s))

\* The escaped marker "\\$\\{#\\}" and the source of the capture group.
EscapedVersion == <<Backslash, "$", Backslash, "{", "#", Backslash, "}">>

GroupSource ==
    <<"(", "[", "1", "-", "9", "]", "[", "0", "-", "9", "]", "*", ")">>

\* The source of patternRegex: the escaped basename, its FIRST escaped
\* marker replaced by the capture group (replace with a string pattern).
PatternRegexSource(pattern) ==
    ReplaceFirst(escapeStringRegexp(Basename(pattern)), EscapedVersion,
                 GroupSource)

\* new RegExp(source) for the sources PatternRegexSource produces: a
\* sequence of atoms, each a literal character or the capture group.
Group == "([1-9][0-9]*)"

RECURSIVE RegExpCompile(_)
RegExpCompile(src) ==
    IF src = <<>> THEN <<>>
    ELSE IF StartsWithAt(src, GroupSource, 1)
        THEN <<Group>> \o RegExpCompile(Tail_From(src, Len(GroupSource) + 1))
    ELSE IF StartsWithAt(src, <<Backslash, "x", "2", "d">>, 1)
        THEN <<"-">> \o RegExpCompile(Tail_From(src, 5))
    ELSE IF Head(src) = Backslash /\ Len(src) >= 2
        THEN <<src[2]>> \o RegExpCompile(Tail_From(src, 3))
    ELSE <<Head(src)>> \o RegExpCompile(Tail(src))

\* Length of the longest text [1-9][0-9]* at position i of s (0: none).
RECURSIVE DigitRun(_, _)
DigitRun(s, i) ==
    IF i > Len(s) \/ ~IsDigit(s[i]) THEN 0 ELSE 1 + DigitRun(s, i + 1)

GroupRun(s, i) == IF i <= Len(s) /\ s[i] # "0" THEN DigitRun(s, i) ELSE 0

\* The atoms from the k-th on match s from position i on (the expression
\* is not anchored: the match may stop before the end of s).
RECURSIVE MatchesAt(_, _, _, _)
MatchesAt(atoms, k, s, i) ==
    IF k > Len(atoms) THEN TRUE
    ELSE IF atoms[k] = Group
        THEN \E n \in 1..GroupRun(s, i) : MatchesAt(atoms, k + 1, s, i + n)
    ELSE i <= Len(s) /\ s[i] = atoms[k] /\ MatchesAt(atoms, k + 1, s, i + 1)

\* regex.exec(s): the leftmost match, the group as long as a match allows.
\* [matched, group]; group is undefined when the expression has no group.
RegExpExec(atoms, s) ==
    LET starts == {i \in 1..(Len(s) + 1) : MatchesAt(atoms, 1, s, i)}
        G == {k \in 1..Len(atoms) : atoms[k] = Group}
    IN  IF starts = {} THEN [matched |-> FALSE, group |-> Undefined]
        ELSE IF G = {} THEN [matched |-> TRUE, group |-> Undefined]
        ELSE LET i == CHOOSE a \in starts : \A b \in starts : a <= b
                 g == CHOOSE k \in G : \A l \in G : k <= l
                 from == i + g - 1
                 N == {n \in 1..GroupRun(s, from) :
                          MatchesAt(atoms, g + 1, s, from + n)}
                 n == CHOOSE a \in N : \A b \in N : b <= a
             IN  [matched |-> TRUE, group |-> SubSeq(s, from, from + n - 1)]

\* A variant of ReduceStep that keeps the version of the entry matched
\* last instead of the greater one.
ReduceStep_Last(atoms, maxVer, file) ==
    LET matched == RegExpExec(atoms, file)
    IN  IF matched.matched THEN ToNumber(matched.group) ELSE maxVer

\* The callback of files.reduce, and the reduce itself, from maxVer on.
ReduceStep(atoms, maxVer, file) ==
    LET matched == RegExpExec(atoms, file)
    IN  IF matched.matched THEN MathMax(maxVer, ToNumber(matched.group))
        ELSE maxVer

RECURSIVE Reduce(_, _, _)
Reduce(atoms, files, maxVer) ==
    IF files = <<>> THEN maxVer
    ELSE Reduce(atoms, Tail(files), ReduceStep(atoms, maxVer, Head(files)))

(***************************************************************************)
(* Inputs: resources, export extensions, patterns.                         *)
(***************************************************************************)
\* /p/s/a.scad in the workspace folder /p; the same file in no folder;
\* /${#}.scad, a file whose name holds the text of the version marker, in
\* the workspace folder /.
Resources ==
    { [fsPath |-> <<"/", "p", "/", "s", "/", "a", ".", "s", "c", "a", "d">>,
       folder |-> <<"/", "p">>],
      [fsPath |-> <<"/", "p", "/", "s", "/", "a", ".", "s", "c", "a", "d">>,
       folder |-> Undefined],
      [fsPath |-> <<"/">> \o VERSION_FORMAT \o <<".", "s", "c", "a", "d">>,
       folder |-> <<"/">>] }

\* exportExt: not supplied, empty, "stl", and the text "${file}".
ExportExts == {Undefined, <<>>, <<"s", "t", "l">>, Placeholder(V_file)}

V_foo == <<"f", "o", "o">>

DotStl == <<".", "s", "t", "l">>

\* The supported names, each as a pattern of its own.
SinglePatterns ==
    { Placeholder(v) :
        v \in { V_workspaceFolder, V_workspaceFolderBasename, V_file,
                V_relativeFile, V_relativeFileDirname, V_fileBasename,
                V_fileBasenameNoExtension, V_fileDirname, V_fileExtname,
                V_exportExtension } }

\* Patterns without the version marker.
PlainPatterns ==
    { Placeholder(V_foo),
      Placeholder(V_workspaceFolderBasename) \o <<"/">> \o Placeholder(V_fileBasename),
      Placeholder(V_foo) \o <<".">> \o Placeholder(V_exportExtension),
      Placeholder(V_foo) \o <<"$">> \o Placeholder(V_relativeFileDirname)
          \o <<"{", "f", "i", "l", "e", "}">>,
      <<"a">> \o DotStl }

\* Patterns with the version marker: in the basename, twice in the
\* basename, behind a directory that may have to be created, behind an
\* absolute directory, behind a directory whose parent is missing, in a
\* directory component only, inside the braces of another placeholder,
\* and next to an unknown placeholder.
VersionPatterns ==
    { Placeholder(V_fileBasenameNoExtension) \o <<"_", "v">> \o VERSION_FORMAT \o DotStl,
      VERSION_FORMAT \o DotStl,
      <<"a">> \o VERSION_FORMAT \o <<"b">> \o VERSION_FORMAT,
      <<"o", "/">> \o VERSION_FORMAT,
      <<"/", "q", "/", "a">> \o VERSION_FORMAT,
      <<"/", "n", "/", "o", "/">> \o VERSION_FORMAT,
      <<"v">> \o VERSION_FORMAT \o <<"/", "a">> \o DotStl,
      <<"$", "{", "x">> \o VERSION_FORMAT,
      Placeholder(V_foo) \o <<"_">> \o VERSION_FORMAT }

\* The patterns a caller passes; undefined selects defaultPattern.
Patterns == {Undefined} \cup SinglePatterns \cup PlainPatterns \cup VersionPatterns

(***************************************************************************)
(* The filesystem: the directories and the regular files, by path.         *)
(***************************************************************************)
\* The directories: /, /p, /p/s and /p/s/v${#}. The directories /p/s/o, /o
\* and /q of the patterns do not exist before a call creates them.
BaseDirs ==
    { <<"/">>, <<"/", "p">>, <<"/", "p", "/", "s">>,
      <<"/", "p", "/", "s", "/", "v">> \o VERSION_FORMAT }

BaseFiles == {r.fsPath : r \in Resources}

\* Names of regular files that may lie in the directories.
EntryNames ==
    { <<"a", "_", "v", "1">> \o DotStl,
      <<"a", "_", "v", "2">> \o DotStl,
      <<"a", "_", "v", "3">> \o DotStl,
      <<"a", "_", "v", "5">> \o DotStl,
      <<"a", "_", "v", "1", "2">> \o DotStl \o <<".", "b", "a", "k">>,
      <<"0", "0", "7">> \o DotStl,
      <<"a", "1", "b", "1">>,
      <<"a">> \o DotStl }

\* The filesystems a call may start from: the directories, the files of
\* the resources, and in every directory the same at most MaxEntries
\* regular files.
FsStates ==
    { [dirs |-> BaseDirs,
       files |-> BaseFiles \cup {PathJoin(d, e) : d \in BaseDirs, e \in E}] :
        E \in {X \in SUBSET EntryNames : Cardinality(X) <= MaxEntries} }

\* The names of the entries of directory d.
Listing(dirs, files, d) ==
    {Basename(x) : x \in {y \in dirs \cup files : y # d /\ Dirname(y) = d}}

\* A set as a sequence, in some fixed order.
RECURSIVE SetToSeq(_)
SetToSeq(S) ==
    IF S = {} THEN <<>>
    ELSE LET x == CHOOSE y \in S : TRUE IN <<x>> \o SetToSeq(S \ {x})

Reverse(s) == [i \in 1..Len(s) |-> s[Len(s) + 1 - i]]

\* A variant of HasVersionFormat that never returns early.
HasVersionFormat_Always(s) == TRUE

\* pattern.match(VERSION_FORMAT): some text ${#} occurs in the string.
HasVersionFormat(s) == Contains(s, VERSION_FORMAT)

\* fileDir of getVersionNumber.
FileDir(pat, res) ==
    IF IsAbsolute(pat) THEN Dirname(pat)
    ELSE Dirname(PathJoin(Dirname(res.fsPath), pat))

(***************************************************************************)
(* The state.                                                              *)
(***************************************************************************)
VARIABLES
    fsDirs,         \* the directories that exist
    fsFiles,        \* the regular files that exist
    pc,             \* where the current call of resolveString stands
    calls,          \* number of calls of resolveString so far
    pattern,        \* resolveString's pattern (defaultPattern applied)
    resource,       \* resolveString's resource
    exportExt,      \* resolveString's exportExt (undefined: not supplied)
    replaced,       \* the pattern after the placeholders were substituted
    patternRegex,   \* getVersionNumber's patternRegex, compiled
    fileDir,        \* getVersionNumber's fileDir
    files,          \* what readdir passed to its callback
    promise,        \* the promise around readdir: [state, value]
    uncaught,       \* the readdir callback threw after settling the promise
    version,        \* what getVersionNumber returned
    outcome,        \* how the call ended: [kind, value]
    notifications,  \* calls of showErrorMessage during the current call
    fsOps,          \* filesystem operations of the current call, in order
    previous,       \* the result of the call before, when resolved again
    original        \* the pattern the caller passed to the first call

vars ==
    <<fsDirs, fsFiles, pc, calls, pattern, resource, exportExt, replaced,
      patternRegex, fileDir, files, promise, uncaught, version, outcome,
      notifications, fsOps, previous, original>>

Pending == [state |-> "pending", value |-> Undefined]

NoOutcome == [kind |-> "none", value |-> Undefined]

Init ==
    /\ \E fs \in FsStates : fsDirs = fs.dirs /\ fsFiles = fs.files
    /\ pc = "idle"
    /\ calls = 0
    /\ pattern = Undefined
    /\ resource = Undefined
    /\ exportExt = Undefined
    /\ replaced = Undefined
    /\ patternRegex = Undefined
    /\ fileDir = Undefined
    /\ files = Undefined
    /\ promise = Pending
    /\ uncaught = FALSE
    /\ version = NoNumber
    /\ outcome = NoOutcome
    /\ notifications = 0
    /\ fsOps = <<>>
    /\ previous = Undefined
    /\ original = Undefined

(***************************************************************************)
(* resolveString.                                                          *)
(***************************************************************************)
\* resolveString(p, r, e) up to its await: the default of pattern, the
\* substitution of the placeholders, and the call of getVersionNumber.
\* An exception of the substitution rejects the promise of the call.
Call(p, r, e) ==
    LET pat == IF p = Undefined THEN defaultPattern ELSE p
        rep == ReplaceVariables(pat, r, e)
    IN  /\ calls' = calls + 1
        /\ pattern' = pat
        /\ resource' = r
        /\ exportExt' = e
        /\ patternRegex' = Undefined
        /\ fileDir' = Undefined
        /\ files' = Undefined
        /\ promise' = Pending
        /\ uncaught' = FALSE
        /\ version' = NoNumber
        /\ notifications' = 0
        /\ fsOps' = <<>>
        /\ UNCHANGED <<fsDirs, fsFiles>>
        /\ IF rep = TypeError
              THEN /\ replaced' = Undefined
                   /\ outcome' = [kind |-> "rejected", value |-> TypeError]
                   /\ pc' = "done"
              ELSE /\ replaced' = rep
                   /\ outcome' = NoOutcome
                   /\ pc' = "getVersionNumber"

\* A caller resolves a pattern for a file.
ResolveString ==
    /\ pc = "idle"
    /\ calls < MaxCalls
    /\ previous' = Undefined
    /\ \E p \in Patterns, r \in Resources, e \in ExportExts :
         /\ original' = (IF p = Undefined THEN defaultPattern ELSE p)
         /\ Call(p, r, e)

\* The caller resolves the string it got once more, for the same file.
ResolveAgain ==
    /\ pc = "done"
    /\ outcome.kind = "returned"
    /\ calls < MaxCalls
    /\ previous' = outcome.value
    /\ original' = original
    /\ Call(outcome.value, resource, exportExt)

\* getVersionNumber up to the call of readdir: -1 without a marker, else
\* the expression, the directory, existsSync and, for a directory that
\* does not exist, mkdirSync. mkdirSync throws when the parent is no
\* directory, and may throw for want of permission.
GetVersionNumber ==
    /\ pc = "getVersionNumber"
    /\ UNCHANGED <<fsFiles, calls, pattern, resource, exportExt, replaced,
                   files, promise, uncaught, notifications, previous, original>>
    /\ IF ~HasVersionFormat(replaced)
          THEN /\ version' = Num(-1)
               /\ pc' = "switch"
               /\ UNCHANGED <<fsDirs, patternRegex, fileDir, outcome, fsOps>>
          ELSE LET dir == FileDir(replaced, resource)
               IN  /\ patternRegex' = RegExpCompile(PatternRegexSource(replaced))
                   /\ fileDir' = dir
                   /\ version' = version
                   /\ IF dir \in fsDirs \cup fsFiles
                         THEN /\ fsOps' = fsOps \o <<"existsSync", "readdir">>
                              /\ pc' = "readdir"
                              /\ UNCHANGED <<fsDirs, outcome>>
                         ELSE \E permitted \in BOOLEAN :
                                IF permitted /\ Dirname(dir) \in fsDirs
                                   THEN /\ fsDirs' = fsDirs \cup {dir}
                                        /\ fsOps' = fsOps \o <<"existsSync",
                                                       "mkdirSync", "readdir">>
                                        /\ pc' = "readdir"
                                        /\ outcome' = outcome
                                   ELSE /\ fsOps' = fsOps \o <<"existsSync",
                                                       "mkdirSync">>
                                        /\ outcome' = [kind |-> "rejected",
                                                       value |-> <<"mkdirSync">>]
                                        /\ pc' = "done"
                                        /\ fsDirs' = fsDirs

\* The callback of readdir. With an error it rejects the promise with -2
\* and goes on to files.reduce with files undefined, which throws inside
\* the callback. Without, it resolves the promise with the greatest
\* version among the entries; the order of the entries is the system's.
ReaddirCallback ==
    /\ pc = "readdir"
    /\ pc' = "await"
    /\ UNCHANGED <<fsDirs, fsFiles, calls, pattern, resource, exportExt,
                   replaced, patternRegex, fileDir, version, outcome,
                   notifications, fsOps, previous, original>>
    /\ \E err \in BOOLEAN, reversed \in BOOLEAN :
         IF err \/ fileDir \notin fsDirs
            THEN /\ files' = Undefined
                 /\ promise' = [state |-> "rejected", value |-> Num(-2)]
                 /\ uncaught' = TRUE
            ELSE LET inOrder == SetToSeq(Listing(fsDirs, fsFiles, fileDir))
                     entries == IF reversed THEN Reverse(inOrder) ELSE inOrder
                 IN  /\ files' = entries
                     /\ promise' = [state |-> "fulfilled",
                                    value |-> Reduce(patternRegex, entries, Num(0))]
                     /\ uncaught' = FALSE

\* getVersionNumber behind its await: a rejected promise throws, and the
\* call of resolveString is rejected with it; else the next version.
AwaitReaddir ==
    /\ pc = "await"
    /\ UNCHANGED <<fsDirs, fsFiles, calls, pattern, resource, exportExt,
                   replaced, patternRegex, fileDir, files, promise, uncaught,
                   notifications, fsOps, previous, original>>
    /\ IF promise.state = "rejected"
          THEN /\ outcome' = [kind |-> "rejected", value |-> promise.value]
               /\ pc' = "done"
               /\ version' = version
          ELSE /\ version' = IF LessThanZero(promise.value) THEN promise.value
                             ELSE PlusOne(promise.value)
               /\ pc' = "switch"
               /\ outcome' = outcome

\* The value resolveString returns for a version.
Substituted(rep, ver) ==
    IF ver = Num(-1) \/ ver = Num(-2) THEN rep
    ELSE ReplaceAll(rep, VERSION_FORMAT, NumberToString(ver))

\* resolveString behind its await: the switch over the version.
Switch ==
    /\ pc = "switch"
    /\ pc' = "done"
    /\ notifications' = IF version = Num(-2) THEN notifications + 1
                        ELSE notifications
    /\ outcome' = [kind |-> "returned", value |-> Substituted(replaced, version)]
    /\ UNCHANGED <<fsDirs, fsFiles, calls, pattern, resource, exportExt,
                   replaced, patternRegex, fileDir, files, promise, uncaught,
                   version, fsOps, previous, original>>

Next ==
    \/ ResolveString
    \/ ResolveAgain
    \/ GetVersionNumber
    \/ ReaddirCallback
    \/ AwaitReaddir
    \/ Switch

Spec == Init /\ [][Next]_vars

(***************************************************************************)
(* Properties.                                                             *)
(***************************************************************************)
\* The call of resolveString has ended, by a value or by an exception.
Finished == pc = "done"

Returned == pc = "done" /\ outcome.kind = "returned"

SupportedNames ==
    { V_workspaceFolder, V_workspaceFolderBasename, V_file, V_relativeFile,
      V_relativeFileDirname, V_fileBasename, V_fileBasenameNoExtension,
      V_fileDirname, V_fileExtname, V_exportExtension }

Range(s) == {s[i] : i \in 1..Len(s)}

SetMax(S) == CHOOSE x \in S : \A y \in S : y <= x

\* The placeholders of s whose name is neither supported nor "#".
UnknownMatches(s) ==
    {m \in Range(VariableMatches(s)) :
        m.variable \notin SupportedNames \cup {V_version}}

\* The listing of the destination directory has failed in this call.
ListingFailed == promise.state = "rejected"

\* The listing of the destination directory has succeeded in this call.
ListingSucceeded == files # Undefined

\* C1: when the intermediate string contains ${#} and listing the
\* destination directory fails, resolveString completes normally, returns
\* the intermediate string with ${#} still in it, and showErrorMessage is
\* called exactly once during the call.
C1_ListingFailureDegrades ==
    (Finished /\ ListingFailed) =>
        /\ outcome.kind = "returned"
        /\ outcome.value = replaced
        /\ Contains(outcome.value, VERSION_FORMAT)
        /\ notifications = 1

\* C2: whatever the pattern, the file and the outcomes of existsSync,
\* mkdirSync and readdir, a call of resolveString ends by returning a
\* string, never by an exception or a rejected promise.
C2_ResolveAlwaysReturns ==
    Finished => (outcome.kind = "returned" /\ ~uncaught)

\* C3: for a file in no workspace folder the placeholders workspaceFolder,
\* workspaceFolderBasename and relativeFile evaluate to their own text
\* without an exception, and the other placeholders are still substituted,
\* so that resolveString returns a string.
C3_NoFolderFailsSoft ==
    (Finished /\ calls = 1 /\ GetWorkspaceFolder(resource) = Undefined) =>
        /\ outcome.kind = "returned"
        /\ replaced # Undefined
        /\ pattern \in { Placeholder(V_workspaceFolder),
                         Placeholder(V_workspaceFolderBasename),
                         Placeholder(V_relativeFile) } => replaced = pattern
        /\ pattern = Placeholder(V_fileBasename) =>
               replaced = Basename(resource.fsPath)

\* C4: when resolveString returns with a number V taken from a listing,
\* the basename of the returned string is the name of no entry of that
\* listing: the number is unused.
C4_VersionUnused ==
    (Returned /\ ListingSucceeded /\ ~version.nan) =>
        Basename(outcome.value) \notin Range(files)

\* The versions captured from the entries that match the expression.
CapturedVersions(atoms, entries) ==
    {ParseDecimal(RegExpExec(atoms, f).group) :
        f \in {g \in Range(entries) : RegExpExec(atoms, g).matched}}

\* getVersionNumber has returned a version computed from a listing for an
\* intermediate string whose basename contains the marker.
ScannedBasename ==
    /\ pc \in {"switch", "done"}
    /\ version # NoNumber
    /\ ListingSucceeded
    /\ Contains(Basename(replaced), VERSION_FORMAT)

\* C5: for an intermediate string whose basename contains the marker and
\* a directory that can be listed, getVersionNumber returns 1 + the
\* greatest number captured from the matching entries, 0 standing for no
\* match; a directory that mkdirSync has just created gives 1.
C5_NextVersionIsMaxPlusOne ==
    /\ ScannedBasename =>
           version = Num(1 + SetMax(CapturedVersions(patternRegex, files) \cup {0}))
    /\ (pc \in {"switch", "done"} /\ version # NoNumber
            /\ \E i \in 1..Len(fsOps) : fsOps[i] = "mkdirSync") =>
           version = Num(1)

\* The entries a_v1.stl and a_v3.stl give a_v4.stl.
C5_Witness ==
    /\ Returned
    /\ ScannedBasename
    /\ CapturedVersions(patternRegex, files) = {1, 3}
    /\ version = Num(4)
    /\ outcome.value = <<"a", "_", "v", "4", ".", "s", "t", "l">>

\* C6 as stated: a call whose pattern contains no ${#} performs no
\* filesystem operation, whatever the file.
C6_NoMarkerInPatternNoIO ==
    (pc # "idle" /\ ~Contains(pattern, VERSION_FORMAT)) => fsOps = <<>>

\* C6 amended: a call whose intermediate string (the pattern after the
\* substitution of the placeholders) contains no ${#}, or that has no
\* intermediate string because the substitution threw, performs no
\* filesystem operation.
C6_NoMarkerInReplacedNoIO ==
    (replaced = Undefined \/ ~Contains(replaced, VERSION_FORMAT)) => fsOps = <<>>

\* A call has substituted placeholders, left no marker, and returned
\* without a filesystem operation.
C6_Witness ==
    /\ Returned
    /\ VariableMatches(pattern) # <<>>
    /\ replaced # pattern
    /\ ~Contains(replaced, VERSION_FORMAT)
    /\ fsOps = <<>>

\* C7 as stated: ${exportExtension} evaluates to the override when one is
\* supplied and not empty, and to its own text when the override is not
\* supplied or empty, so that the default pattern without an override
\* keeps ${exportExtension} in its result.
C7_MissingOverrideKeepsPlaceholder ==
    /\ (replaced # Undefined /\ pattern = Placeholder(V_exportExtension)) =>
           replaced = (IF exportExt \in {Undefined, <<>>} THEN pattern
                       ELSE exportExt)
    /\ (Returned /\ pattern = defaultPattern /\ exportExt = Undefined) =>
           Contains(outcome.value, Placeholder(V_exportExtension))

\* C7 amended: whenever the evaluation of ${exportExtension} returns, it
\* returns the override when one is supplied and not empty, "scad" when
\* none is supplied, and its own text when the override is empty, so that
\* the default pattern without an override resolves to the file's
\* basename without extension followed by ".scad".
C7_MissingOverrideGivesScad ==
    /\ (replaced # Undefined /\ pattern = Placeholder(V_exportExtension)) =>
           replaced = (IF exportExt = Undefined THEN <<"s", "c", "a", "d">>
                       ELSE IF exportExt = <<>> THEN pattern
                       ELSE exportExt)
    /\ (replaced # Undefined /\ pattern = defaultPattern /\ exportExt = Undefined) =>
           replaced = fileBasenameNoExt(resource) \o <<".", "s", "c", "a", "d">>
    /\ (Returned /\ pattern = defaultPattern /\ exportExt = Undefined) =>
           ~Contains(outcome.value, Placeholder(V_exportExtension))

\* The default pattern without an override has resolved to a.scad.
C7_Witness ==
    /\ Returned
    /\ calls = 1
    /\ original = defaultPattern
    /\ exportExt = Undefined
    /\ outcome.value = <<"a", ".", "s", "c", "a", "d">>

\* Every placeholder of the pattern is unknown, and there is one.
OnlyUnknownMatches(s) ==
    /\ VariableMatches(s) # <<>>
    /\ \A m \in Range(VariableMatches(s)) : m \in UnknownMatches(s)

\* C8 as stated: for a file in a workspace folder every placeholder whose
\* name is neither supported nor "#" is left verbatim by resolveString,
\* the text around it unchanged, and resolving the result once more gives
\* the same string.
C8_UnknownLeftVerbatim ==
    (Returned /\ GetWorkspaceFolder(resource) # Undefined) =>
        /\ \A m \in UnknownMatches(pattern) : Contains(outcome.value, m.match)
        /\ OnlyUnknownMatches(pattern) => outcome.value = pattern
        /\ (previous # Undefined /\ UnknownMatches(original) # {}) =>
               outcome.value = previous

\* No placeholder of the pattern evaluates to the empty string or to a
\* text with "$", "{" or "}" in it, unless to its own text.
CleanValues(s, res, ext) ==
    \A m \in Range(VariableMatches(s)) :
        LET v == EvaluateSingleVariable(m.match, m.variable, res, ext)
        IN  v = m.match \/ (v # <<>> /\ \A k \in 1..Len(v) : v[k] \notin {"$", "{", "}"})

\* C8 amended: for a file in a workspace folder, whenever resolveString
\* returns, every placeholder whose name is neither supported nor "#" and
\* whose text does not contain ${#} (its name does not end in "${#") is
\* left verbatim, the text around it unchanged; and when no placeholder of
\* the pattern evaluated to the empty string or to a text with "$", "{"
\* or "}" in it, resolving the result once more gives the same string.
C8_UnknownLeftVerbatimAmended ==
    (Returned /\ GetWorkspaceFolder(resource) # Undefined) =>
        /\ \A m \in UnknownMatches(pattern) :
               ~Contains(m.match, VERSION_FORMAT) => Contains(outcome.value, m.match)
        /\ (/\ OnlyUnknownMatches(pattern)
            /\ \A m \in UnknownMatches(pattern) : ~Contains(m.match, VERSION_FORMAT)) =>
               outcome.value = pattern
        /\ (/\ previous # Undefined
            /\ UnknownMatches(original) # {}
            /\ CleanValues(original, resource, exportExt)) =>
               outcome.value = previous

\* ${foo}.${exportExtension} with the override "stl" has resolved to
\* ${foo}.stl, and resolving that once more has given ${foo}.stl again.
C8_Witness ==
    /\ Returned
    /\ calls = 2
    /\ original = Placeholder(V_foo) \o <<".">> \o Placeholder(V_exportExtension)
    /\ exportExt = <<"s", "t", "l">>
    /\ previous = Placeholder(V_foo) \o <<".", "s", "t", "l">>
    /\ outcome.value = previous

\* C9: what getVersionNumber returns is -1 exactly when the intermediate
\* string contains no ${#}, and otherwise -2 or an integer >= 1, also when
\* the marker lies in a directory component only; so the value put in
\* place of ${#} is a decimal integer >= 1.
C9_ThreeOutcomes ==
    (pc \in {"switch", "done"} /\ version # NoNumber) =>
        /\ ~version.nan
        /\ version.val = -1 <=> ~Contains(replaced, VERSION_FORMAT)
        /\ version.val \in {-1, -2} \/ version.val >= 1

\* The numbers written in decimal somewhere in s.
NumbersIn(s) ==
    {ParseDecimal(SubSeq(s, i, j)) :
        <<i, j>> \in {<<a, b>> \in (1..Len(s)) \X (1..Len(s)) :
                          a <= b /\ \A k \in a..b : IsDigit(s[k])}}

\* The entries that are, as a whole, the basename with ${#} replaced by a
\* number n >= 1 written in decimal without a leading zero.
WholeNameEntries(base, entries) ==
    SelectSeq(entries,
              LAMBDA f : \E n \in NumbersIn(f) :
                  n >= 1 /\ f = ReplaceAll(base, VERSION_FORMAT, DecimalString(n)))

\* C10: only the entries whose whole name is the basename of the
\* intermediate string with ${#} replaced by a decimal number without a
\* leading zero raise the version: the version is what the whole-name
\* entries alone give, entries that contain such a name or write the
\* number with leading zeros change nothing.
C10_WholeNamesOnly ==
    ScannedBasename =>
        version = Num(1 + SetMax(CapturedVersions(patternRegex,
                                     WholeNameEntries(Basename(replaced), files))
                                 \cup {0}))

====
